---- MODULE Spec2Model ----
(***************************************************************************)
(* Model of aiozk.connection.Connection: the send path, the read loop     *)
(* (read_response split at its await points), abort and close, together   *)
(* with a server that answers the requests written to the transport; and  *)
(* the bounded reader _read, run on its own against a byte stream.         *)
(***************************************************************************)
EXTENDS Integers, Sequences, FiniteSets, TLC

\* ---------------------------------------------------------------- bounds
MaxSends == 2
MaxXid == 2
\* the bounded reader: the largest size asked of _read, the largest
\* read_timeout given to the constructor (in clock ticks)
MaxSize == 3
MaxReadTimeout == 2

\* ------------------------------------------------------------- constants
\* xid=None (the default of send) is encoded as 0; caller ids are 1..MaxXid
NoneXid == 0
WATCH_XID == -1
PING_XID == -2
CLOSE_XID == -8
SPECIAL_XIDS == {WATCH_XID, PING_XID, CLOSE_XID}
OrdXids == 1..MaxXid
PendingKeys == {NoneXid} \cup OrdXids
AllXids == PendingKeys \cup SPECIAL_XIDS

Host == "zk1"
Port == 2181

Waiters == 1..MaxSends
NoWaiter == 0
NoOpcode == 0
NoTimeout == -1

\* the requests a caller may hand to send: (opcode, special_xid)
Requests ==
  { [opcode |-> 4, special_xid |-> NoneXid],
    [opcode |-> 11, special_xid |-> PING_XID],
    [opcode |-> -11, special_xid |-> CLOSE_XID] }

\* the nonzero error code a reply header may carry, and the error kind
\* exc.get_response_error maps it to
NoNodeCode == -101
ErrorCodes == {NoNodeCode}

get_response_error(error_code) ==
  IF error_code = NoNodeCode THEN "NoNode" ELSE "UnknownError"

\* --------------------------------------------------------------- futures
Unborn == [st |-> "unborn", kind |-> "", addr |-> <<>>, zxid |-> 0, op |-> 0, body |-> 0]
PendingFut == [st |-> "pending", kind |-> "", addr |-> <<>>, zxid |-> 0, op |-> 0, body |-> 0]
CancelledFut == [st |-> "cancelled", kind |-> "", addr |-> <<>>, zxid |-> 0, op |-> 0, body |-> 0]
ResultFut(zxid, op, body) ==
  [st |-> "result", kind |-> "", addr |-> <<>>, zxid |-> zxid, op |-> op, body |-> body]
\* an exception instance: exception(self.host, self.port)
ConnExc(kind) ==
  [st |-> "exc", kind |-> kind, addr |-> <<Host, Port>>, zxid |-> 0, op |-> 0, body |-> 0]
\* the error value built from a reply header's error_code
ResponseExc(kind) ==
  [st |-> "exc", kind |-> kind, addr |-> <<>>, zxid |-> 0, op |-> 0, body |-> 0]

done(f) == f.st \in {"result", "exc", "cancelled"}

\* a frame on the wire: the request it answers (0: a watch event) and the
\* error_code of its header
NoFrame == [body |-> 0, err |-> 0]
WatchFrame == [body |-> 0, err |-> 0]

VARIABLES
  writer,            \* "None" | "open" | "closed"
  closes,            \* number of writer.close() calls on the session transport
  closing,           \* self.closing
  opcode_xref,       \* self.opcode_xref: xid -> opcode (NoOpcode = no entry)
  pending,           \* self.pending: xid -> waiter (NoWaiter = no entry)
  pending_specials,  \* self.pending_specials: special xid -> list of waiters
  fut,               \* the futures returned by send
  nres,              \* per future: number of set_result/set_exception calls
  sent,              \* per send call: the id and opcode it used
  writes,            \* number of frames handed to writer.write
  srv,               \* requests the server received and has not answered
  rl_pc,             \* read_loop_task: "None","size","hdr","closebody","returned","raised"
  rl_frame,          \* the frame read_response is in the middle of
  rl_cancel,         \* read_loop_task.cancel() called and not yet delivered
  close_pc,          \* close(): "idle","waiting","done","raised"
  close_timeout,     \* the timeout of the close() call that waited for the read loop
  event,             \* what the step that produced this state invoked
  rd                 \* one call of _read: its locals, the clock and the stream

conn_vars == <<writer, closes, closing, opcode_xref, pending, pending_specials, fut,
               nres, sent, writes, srv, rl_pc, rl_frame, rl_cancel,
               close_pc, close_timeout, event>>

vars == <<conn_vars, rd>>

\* what a step did: op is "watch_handler" when it invoked the watch handler,
\* "read_error" when a read or a decode of the read loop failed, "close_again"
\* when it was a call of close() on a closing connection, "" otherwise
\* (the argument names the step, w the future it was about); abort is the
\* exception abort ran with in the step, "" when it did not run
Recorded == {"watch_handler", "read_error", "close_again"}
Ev(op, w, ab) == [op |-> IF op \in Recorded THEN op ELSE "", abort |-> ab]

EmptyPending == [x \in PendingKeys |-> NoWaiter]
EmptySpecials == [x \in SPECIAL_XIDS |-> <<>>]

\* no call of _read is being followed
NoRead ==
  [pc |-> "None", size |-> 0, remaining_size |-> 0, start |-> 0, read_timeout |-> 0,
   end_time |-> 0, now |-> 0, payload |-> <<>>, pos |-> 0, total |-> 0,
   result |-> <<>>]

ConnInit ==
  /\ writer = "None"
  /\ closes = 0
  /\ closing = FALSE
  /\ opcode_xref = [x \in AllXids |-> NoOpcode]
  /\ pending = EmptyPending
  /\ pending_specials = EmptySpecials
  /\ fut = [w \in Waiters |-> Unborn]
  /\ nres = [w \in Waiters |-> 0]
  /\ sent = <<>>
  /\ writes = 0
  /\ srv = {}
  /\ rl_pc = "None"
  /\ rl_frame = NoFrame
  /\ rl_cancel = FALSE
  /\ close_pc = "idle"
  /\ close_timeout = NoTimeout
  /\ event = Ev("init", 0, "")

Init ==
  /\ ConnInit
  /\ rd = NoRead

\* ------------------------------------------------------------- registry
RECURSIVE SumLens(_, _)
SumLens(ps, S) ==
  IF S = {} THEN 0
  ELSE LET x == CHOOSE y \in S : TRUE IN Len(ps[x]) + SumLens(ps, S \ {x})

pending_count(p, ps) ==
  SumLens(ps, SPECIAL_XIDS) + Cardinality({k \in PendingKeys : p[k] # NoWaiter})

SeqRange(s) == {s[i] : i \in 1..Len(s)}

\* iterables.drain: empties the collection, yielding every element of it
drain(coll) == coll

drain_all_pending(p, ps) ==
  UNION {drain(SeqRange(ps[x])) : x \in SPECIAL_XIDS}
    \cup drain({p[k] : k \in {j \in PendingKeys : p[j] # NoWaiter}})

\* the futures abort calls set_exception on
abort_fails_none(f, drained) == {}
abort_skip_none(f, drained) == drained
abort_targets(f, drained) == {w \in drained : ~done(f[w])}

abort_wrong_exception(f, drained, exception) ==
  [w \in Waiters |-> IF w \in abort_targets(f, drained) THEN ConnExc("ConnectError") ELSE f[w]]
abort(f, drained, exception) ==
  [w \in Waiters |-> IF w \in abort_targets(f, drained) THEN ConnExc(exception) ELSE f[w]]

Bump(n, S) == [w \in Waiters |-> IF w \in S THEN n[w] + 1 ELSE n[w]]

\* the state change of one abort(exception) call on registry (p, ps), futures f
Aborting(p, ps, f, exception) ==
  /\ pending' = EmptyPending
  /\ pending_specials' = EmptySpecials
  /\ fut' = abort(f, drain_all_pending(p, ps), exception)
  /\ nres' = Bump(nres, abort_targets(f, drain_all_pending(p, ps)))

\* ------------------------------------------------------------ connect
Connect ==
  /\ writer = "None"
  /\ writer' = "open"
  /\ event' = Ev("connect", 0, "")
  /\ UNCHANGED <<closes, closing, opcode_xref, pending, pending_specials, fut,
                 nres, sent, writes, srv, rl_pc, rl_frame,
                 rl_cancel, close_pc, close_timeout>>
  /\ UNCHANGED rd

\* the loop condition of read_loop
loop_continues(c, p, ps) == ~c \/ pending_count(p, ps) > 0

start_read_loop ==
  /\ writer = "open"
  /\ rl_pc = "None"
  /\ ~closing
  /\ rl_pc' = IF loop_continues(closing, pending, pending_specials) THEN "size" ELSE "returned"
  /\ event' = Ev("start_read_loop", 0, "")
  /\ UNCHANGED <<writer, closes, closing, opcode_xref, pending, pending_specials,
                 fut, nres, sent, writes, srv, rl_frame,
                 rl_cancel, close_pc, close_timeout>>
  /\ UNCHANGED rd

\* -------------------------------------------------------------- send
\* the correlation id send uses: the request's special_xid if it has one
send_xid(request, xid) ==
  IF request.special_xid # NoneXid THEN request.special_xid ELSE xid

\* send returns early with a failed future when the connection is closing
send_ignores_closing(c) == FALSE
send_refused(c) == c

\* the ids the caller layer hands to send: ordinary ids are taken in
\* increasing order (an id is first used when all smaller ones have been),
\* and no id is given with a request that carries its own reserved id
CallerXid(request, xid) ==
  /\ xid \in OrdXids => \A k \in 1..(xid - 1) : \E v \in 1..Len(sent) : sent[v].xid = k
  /\ request.special_xid # NoneXid => xid = NoneXid

send(request, xid, write_ok) ==
  /\ writer # "None"
  /\ Len(sent) < MaxSends
  /\ CallerXid(request, xid)
  /\ LET w == Len(sent) + 1
         x == send_xid(request, xid)
     IN
     IF send_refused(closing)
     THEN /\ fut' = [fut EXCEPT ![w] = ConnExc("ConnectError")]
          /\ nres' = Bump(nres, {w})
          /\ sent' = Append(sent, [xid |-> x, opcode |-> request.opcode, refused |-> TRUE])
          /\ event' = Ev("send", w, "")
          /\ UNCHANGED <<opcode_xref, pending, pending_specials, writes, srv>>
     ELSE LET p1 == IF x \in SPECIAL_XIDS THEN pending
                    ELSE [pending EXCEPT ![x] = w]
              ps1 == IF x \in SPECIAL_XIDS
                     THEN [pending_specials EXCEPT ![x] = Append(@, w)]
                     ELSE pending_specials
              f1 == [fut EXCEPT ![w] = PendingFut]
          IN
          /\ opcode_xref' = [opcode_xref EXCEPT ![x] = request.opcode]
          /\ sent' = Append(sent, [xid |-> x, opcode |-> request.opcode, refused |-> FALSE])
          /\ IF write_ok /\ writer = "open"
             THEN /\ writes' = writes + 1
                  \* a request without an id header is not answered by the server
                  /\ srv' = IF x = NoneXid THEN srv ELSE srv \cup {w}
                  /\ pending' = p1
                  /\ pending_specials' = ps1
                  /\ fut' = f1
                  /\ event' = Ev("send", w, "")
                  /\ UNCHANGED <<nres>>
             ELSE \* writer.write raised: self.abort()
                  /\ Aborting(p1, ps1, f1, "ConnectError")
                  /\ event' = Ev("send", w, "ConnectError")
                  /\ UNCHANGED <<writes, srv>>
  /\ UNCHANGED <<writer, closes, closing, rl_pc, rl_frame,
                 rl_cancel, close_pc, close_timeout>>
  /\ UNCHANGED rd

\* the caller cancels the future send gave it
cancel(w) ==
  /\ fut[w].st = "pending"
  /\ fut' = [fut EXCEPT ![w] = CancelledFut]
  /\ event' = Ev("cancel", w, "")
  /\ UNCHANGED <<writer, closes, closing, opcode_xref, pending, pending_specials,
                 nres, sent, writes, srv, rl_pc, rl_frame,
                 rl_cancel, close_pc, close_timeout>>
  /\ UNCHANGED rd

\* a direct call of abort() with the default exception
Abort ==
  /\ writer # "None"
  /\ Aborting(pending, pending_specials, fut, "ConnectError")
  /\ event' = Ev("abort", 0, "ConnectError")
  /\ UNCHANGED <<writer, closes, closing, opcode_xref, sent, writes, srv, rl_pc, rl_frame, rl_cancel, close_pc,
                 close_timeout>>
  /\ UNCHANGED rd

\* ------------------------------------------------------------ server
IsSpecialReq(r) == sent[r].xid \in SPECIAL_XIDS

\* requests the server may answer next: any ordinary one, and for each
\* reserved id the oldest unanswered request of that id
Answerable ==
  {r \in srv : IsSpecialReq(r) =>
                 \A r2 \in srv : sent[r2].xid = sent[r].xid => r <= r2}

ReplyFrames == {[body |-> r, err |-> e] : r \in Answerable, e \in {0} \cup ErrorCodes}

\* the header fields of a frame: the id of the request it answers, and the
\* zxid the server stamps on the reply to request r
FrameXid(frame) == IF frame.body = 0 THEN WATCH_XID ELSE sent[frame.body].xid
ZxidBase == 10
FrameZxid(frame) == IF frame.body = 0 THEN 0 ELSE ZxidBase + frame.body

\* --------------------------------------------------------- read loop
Running == {"size", "hdr", "closebody"}

\* read_response up to the end of its first await: the 4-byte size is read
\* and the header-less branch is chosen while a close request is outstanding
headerless(ps) == ps[CLOSE_XID] # <<>>

read_size(frame) ==
  /\ rl_pc = "size"
  /\ ~rl_cancel
  /\ frame \in ReplyFrames \cup {WatchFrame}
  /\ rl_frame' = frame
  /\ rl_pc' = IF headerless(pending_specials) THEN "closebody" ELSE "hdr"
  /\ srv' = srv \ {frame.body}
  /\ event' = Ev("read_size", frame.body, "")
  /\ UNCHANGED <<writer, closes, closing, opcode_xref, pending, pending_specials,
                 fut, nres, sent, writes, rl_cancel, close_pc, close_timeout>>
  /\ UNCHANGED rd

\* IncompleteReadError on the size prefix -> ConnectionAbortedError -> return
read_eof ==
  /\ rl_pc = "size"
  /\ ~rl_cancel
  /\ rl_pc' = "returned"
  /\ event' = Ev("read_eof", 0, "")
  /\ UNCHANGED <<writer, closes, closing, opcode_xref, pending, pending_specials,
                 fut, nres, sent, writes, srv, rl_frame,
                 rl_cancel, close_pc, close_timeout>>
  /\ UNCHANGED rd

\* the "return" that ends the "except Exception" handler of read_loop
read_error_continues == "size"

read_error_pc == "returned"

\* "except Exception" of read_loop: log, self.abort(), return
read_loop_abort(op, ledger) ==
  /\ Aborting(pending, pending_specials, fut, "ConnectError")
  /\ opcode_xref' = ledger
  /\ rl_pc' = read_error_pc
  /\ rl_frame' = NoFrame
  /\ event' = Ev(op, 0, "ConnectError")
  /\ UNCHANGED <<writer, closes, closing, sent, writes, srv,
                 rl_cancel, close_pc, close_timeout>>

\* any other exception of readexactly (e.g. a connection reset)
read_size_error ==
  /\ rl_pc = "size"
  /\ ~rl_cancel
  /\ read_loop_abort("read_error", opcode_xref)
  /\ UNCHANGED rd

\* list.pop(): the element taken from a reserved id's list, and the rest
pop_special(q) == [f |-> q[Len(q)], rest |-> SubSeq(q, 1, Len(q) - 1)]

\* "if not f.done()": the value the popped future ends with
set_if_not_done(f, value) == IF done(f) THEN f ELSE value

\* the future value a decoded response becomes
response_value(zxid, response) ==
  IF response.exc THEN ResponseExc(response.kind)
  ELSE ResultFut(zxid, response.op, response.body)

\* dict.pop(xid) on self.pending: the key whose entry is taken
pop_other_key(p, xid) ==
  IF \E k \in PendingKeys : k # xid /\ p[k] # NoWaiter
  THEN CHOOSE k \in PendingKeys : k # xid /\ p[k] # NoWaiter
  ELSE xid
pop_key(p, xid) == xid

\* read_loop after read_response returned (xid, zxid, response), xid not
\* WATCH_XID: pop the future, set it, evaluate the loop condition
dispatch(op, xid, zxid, response, ledger) ==
  LET missing == IF xid \in SPECIAL_XIDS THEN pending_specials[xid] = <<>>
                 ELSE pending[pop_key(pending, xid)] = NoWaiter
  IN
  /\ opcode_xref' = ledger
  /\ rl_frame' = NoFrame
  /\ IF missing
     THEN \* IndexError / KeyError outside the try: the task ends with it
          /\ rl_pc' = "raised"
          /\ event' = Ev(op, 0, "")
          /\ UNCHANGED <<pending, pending_specials, fut, nres>>
     ELSE LET k == pop_key(pending, xid)
              w == IF xid \in SPECIAL_XIDS THEN pop_special(pending_specials[xid]).f
                   ELSE pending[k]
              p1 == IF xid \in SPECIAL_XIDS THEN pending
                    ELSE [pending EXCEPT ![k] = NoWaiter]
              ps1 == IF xid \in SPECIAL_XIDS
                     THEN [pending_specials EXCEPT ![xid] = pop_special(@).rest]
                     ELSE pending_specials
          IN
          /\ pending' = p1
          /\ pending_specials' = ps1
          /\ fut' = [fut EXCEPT ![w] = set_if_not_done(@, response_value(zxid, response))]
          /\ nres' = IF fut'[w] # fut[w] THEN Bump(nres, {w}) ELSE nres
          /\ rl_pc' = IF loop_continues(closing, p1, ps1) THEN "size" ELSE "returned"
          /\ event' = Ev(op, w, "")
  /\ UNCHANGED <<writer, closes, closing, sent, writes, srv,
                 rl_cancel, close_pc, close_timeout>>

Faults == {"ok", "UnfinishedRead", "DecodeError"}

\* xid == protocol.WATCH_XID
is_watch_never(xid) == FALSE
is_watch(xid) == xid = WATCH_XID

\* the header-less branch: _read(size), ConnectResponse.deserialize,
\* return (None, None, response)
read_headerless(fault) ==
  /\ rl_pc = "closebody"
  /\ ~rl_cancel
  /\ IF fault # "ok"
     THEN read_loop_abort("read_error", opcode_xref)
     ELSE dispatch("headerless", NoneXid, 0,
                   [exc |-> FALSE, kind |-> "", op |-> NoOpcode, body |-> rl_frame.body],
                   opcode_xref)
  /\ UNCHANGED rd

\* opcode_xref.pop(xid)
ledger_pop(ledger, xid) == [ledger EXCEPT ![xid] = NoOpcode]

\* the rest of read_response and the dispatch of read_loop: the header is
\* read and unpacked; with a nonzero error_code the ledger entry is dropped
\* and the error value returned; otherwise the body is read (an await that
\* touches no state of the connection) and decoded as a WatchEvent or by the
\* opcode popped from the ledger
read_payload(fault) ==
  /\ rl_pc = "hdr"
  /\ ~rl_cancel
  /\ LET xid == FrameXid(rl_frame)
         zxid == FrameZxid(rl_frame)
     IN
     IF fault = "UnfinishedRead"
     THEN read_loop_abort("read_error", opcode_xref)
     ELSE IF rl_frame.err # 0
     THEN /\ fault = "ok"
          /\ IF opcode_xref[xid] = NoOpcode
             THEN \* KeyError inside read_response
                  read_loop_abort("key_error", opcode_xref)
             ELSE dispatch("error_reply", xid, zxid,
                           [exc |-> TRUE, kind |-> get_response_error(rl_frame.err),
                            op |-> NoOpcode, body |-> 0],
                           ledger_pop(opcode_xref, xid))
     ELSE IF is_watch(xid)
     THEN IF fault = "DecodeError"
          THEN read_loop_abort("read_error", opcode_xref)
          ELSE \* self.watch_handler(response); continue
               /\ rl_pc' = IF loop_continues(closing, pending, pending_specials)
                           THEN "size" ELSE "returned"
               /\ rl_frame' = NoFrame
               /\ event' = Ev("watch_handler", 0, "")
               /\ UNCHANGED <<writer, closes, closing, opcode_xref, pending,
                              pending_specials, fut, nres, sent, writes, srv,
                              rl_cancel, close_pc, close_timeout>>
     ELSE IF opcode_xref[xid] = NoOpcode
     THEN \* KeyError inside read_response
          read_loop_abort("key_error", opcode_xref)
     ELSE IF fault = "DecodeError"
     THEN read_loop_abort("read_error", ledger_pop(opcode_xref, xid))
     ELSE dispatch("reply", xid, zxid,
                   [exc |-> FALSE, kind |-> "", op |-> opcode_xref[xid],
                    body |-> rl_frame.body],
                   ledger_pop(opcode_xref, xid))
  /\ UNCHANGED rd

\* CancelledError delivered at the await the task is suspended on -> return
read_cancelled ==
  /\ rl_cancel
  /\ rl_pc \in Running
  /\ rl_pc' = "returned"
  /\ rl_cancel' = FALSE
  /\ rl_frame' = NoFrame
  /\ event' = Ev("read_cancelled", 0, "")
  /\ UNCHANGED <<writer, closes, closing, opcode_xref, pending, pending_specials,
                 fut, nres, sent, writes, srv, close_pc,
                 close_timeout>>
  /\ UNCHANGED rd

\* ------------------------------------------------------------- close
Timeouts == {0, 1}

\* the try/finally of close: abort(TimeoutError) if anything is pending,
\* then writer.close()
close_tail(op) ==
  /\ IF pending_count(pending, pending_specials) > 0
     THEN /\ Aborting(pending, pending_specials, fut, "TimeoutError")
          /\ event' = Ev(op, 0, "TimeoutError")
     ELSE /\ event' = Ev(op, 0, "")
          /\ UNCHANGED <<pending, pending_specials, fut, nres>>
  /\ writer' = "closed"
  /\ closes' = closes + 1
  /\ close_pc' = "done"

\* "if self.closing: return", the first statement of close
close_reenters(c) == FALSE

close_returns_early(c) == c

close(timeout) ==
  /\ writer # "None"
  /\ IF close_returns_early(closing)
     THEN /\ event' = Ev("close_again", 0, "")
          /\ UNCHANGED <<writer, closes, closing, pending, pending_specials,
                         fut, nres, rl_cancel, close_pc, close_timeout>>
     ELSE /\ closing' = TRUE
          /\ IF rl_pc \in Running
             THEN \* await asyncio.wait_for(self.read_loop_task, timeout)
                  /\ close_pc' = "waiting"
                  /\ close_timeout' = timeout
                  /\ rl_cancel' = (timeout = 0)
                  /\ event' = Ev("close", 0, "")
                  /\ UNCHANGED <<writer, closes, pending, pending_specials,
                                 fut, nres>>
             ELSE /\ close_tail("close")
                  /\ UNCHANGED <<rl_cancel, close_timeout>>
  /\ UNCHANGED <<opcode_xref, sent, writes, srv, rl_pc,
                 rl_frame>>
  /\ UNCHANGED rd

\* the timeout of wait_for expires: the read loop task is cancelled
close_timeout_expires ==
  /\ close_pc = "waiting"
  /\ close_timeout > 0
  /\ ~rl_cancel
  /\ rl_pc \in Running
  /\ rl_cancel' = TRUE
  /\ event' = Ev("close_timeout", 0, "")
  /\ UNCHANGED <<writer, closes, closing, opcode_xref, pending, pending_specials,
                 fut, nres, sent, writes, srv, rl_pc, rl_frame,
                 close_pc, close_timeout>>
  /\ UNCHANGED rd

\* the read loop task returned: close goes on to its try/finally
close_resume ==
  /\ close_pc = "waiting"
  /\ rl_pc = "returned"
  /\ close_tail("close_resume")
  /\ UNCHANGED <<closing, opcode_xref, sent, writes, srv,
                 rl_pc, rl_frame, rl_cancel, close_timeout>>
  /\ UNCHANGED rd

\* the read loop task ended with an exception: wait_for re-raises it
close_raise ==
  /\ close_pc = "waiting"
  /\ rl_pc = "raised"
  /\ close_pc' = "raised"
  /\ event' = Ev("close_raise", 0, "")
  /\ UNCHANGED <<writer, closes, closing, opcode_xref, pending, pending_specials,
                 fut, nres, sent, writes, srv, rl_pc, rl_frame,
                 rl_cancel, close_timeout>>
  /\ UNCHANGED rd

ReadLoopStep ==
  \/ \E frame \in ReplyFrames \cup {WatchFrame} : read_size(frame)
  \/ read_eof
  \/ read_size_error
  \/ \E fault \in Faults : read_headerless(fault)
  \/ \E fault \in Faults : read_payload(fault)
  \/ read_cancelled

CloseStep ==
  \/ close_timeout_expires
  \/ close_resume
  \/ close_raise

Next ==
  \/ ReadLoopStep
  \/ CloseStep
  \/ \E timeout \in Timeouts : close(timeout)
  \/ \E request \in Requests, xid \in PendingKeys, write_ok \in BOOLEAN :
        send(request, xid, write_ok)
  \/ \E w \in Waiters : cancel(w)
  \/ Abort
  \/ Connect
  \/ start_read_loop

Spec == Init /\ [][Next]_vars

\* the session starts the read loop once connected, and the event loop runs
\* every task that is ready
FairSpec ==
  Spec /\ WF_vars(start_read_loop) /\ WF_vars(ReadLoopStep) /\ WF_vars(CloseStep)

\* ------------------------------------------------------ bounded reader
\* _read(size) followed on its own: the peer has `total` bytes to send, the
\* bytes of Stream in order, and then closes the stream or stays silent; the
\* clock counts ticks.
DEFAULT_READ_TIMEOUT == 3

Stream == [i \in 1..(MaxSize + 1) |-> i]

\* self.read_timeout = read_timeout or DEFAULT_READ_TIMEOUT (0: None or 0)
read_timeout_or_default(read_timeout) ==
  IF read_timeout = 0 THEN DEFAULT_READ_TIMEOUT ELSE read_timeout

\* the state of _read at its first test of the loop condition
read_start(size, read_timeout, total, start) ==
  [pc |-> "loop", size |-> size, remaining_size |-> size, start |-> start,
   read_timeout |-> read_timeout_or_default(read_timeout),
   end_time |-> start + read_timeout_or_default(read_timeout),
   now |-> start, payload |-> <<>>, pos |-> 0, total |-> total, result |-> <<>>]

Sizes == (-1)..MaxSize
ReadTimeouts == 0..MaxReadTimeout
Totals == 0..(MaxSize + 1)
StartTimes == {0, 1}

\* while remaining_size and (time() < end_time)
read_more(remaining_size, now, end_time) ==
  remaining_size # 0 /\ now < end_time

\* the lengths of the chunk reader.read(n) may return with the stream at pos:
\* n < 0 reads up to the end of the stream, otherwise at least one byte and
\* at most n, and b'' once the stream has ended
reader_read(n, pos, total) ==
  IF n < 0 THEN {total - pos}
  ELSE IF pos = total THEN {0}
  ELSE {len \in 1..n : len <= total - pos}

\* b''.join(payload)
RECURSIVE join(_)
join(payload) ==
  IF payload = <<>> THEN <<>> ELSE Head(payload) \o join(Tail(payload))

\* one iteration of the loop in which wait_for returns a chunk, d ticks
\* after the test of the loop condition and within the remaining time (an
\* iteration that gets b'' takes a tick)
read_chunk(len, d) ==
  /\ rd.pc = "loop"
  /\ read_more(rd.remaining_size, rd.now, rd.end_time)
  /\ len \in reader_read(rd.remaining_size, rd.pos, rd.total)
  /\ d \in (IF len = 0 THEN 1 ELSE 0)..(rd.end_time - rd.now)
  /\ rd' = [rd EXCEPT !.payload = Append(@, SubSeq(Stream, rd.pos + 1, rd.pos + len)),
                      !.remaining_size = @ - len,
                      !.pos = @ + len,
                      !.now = @ + d]
  /\ UNCHANGED conn_vars

\* one iteration in which wait_for raises TimeoutError, remaining_time after
\* it was called: continue
read_timed_out ==
  /\ rd.pc = "loop"
  /\ read_more(rd.remaining_size, rd.now, rd.end_time)
  /\ rd' = [rd EXCEPT !.now = rd.end_time]
  /\ UNCHANGED conn_vars

\* if remaining_size: raise exc.UnfinishedRead
never_unfinished(remaining_size) == FALSE

unfinished(remaining_size) == remaining_size # 0

\* the loop condition is false: raise UnfinishedRead or return the payload
read_done ==
  /\ rd.pc = "loop"
  /\ ~read_more(rd.remaining_size, rd.now, rd.end_time)
  /\ rd' = IF unfinished(rd.remaining_size)
           THEN [rd EXCEPT !.pc = "UnfinishedRead"]
           ELSE [rd EXCEPT !.pc = "returned", !.result = join(rd.payload)]
  /\ UNCHANGED conn_vars

ReadInit ==
  /\ ConnInit
  /\ rd \in {read_start(size, read_timeout, total, start) :
               size \in Sizes, read_timeout \in ReadTimeouts,
               total \in Totals, start \in StartTimes}

ReadNext ==
  \/ \E len \in 0..(MaxSize + 1), d \in 0..(MaxReadTimeout + DEFAULT_READ_TIMEOUT) :
        read_chunk(len, d)
  \/ read_timed_out
  \/ read_done

ReadSpec == ReadInit /\ [][ReadNext]_vars

\* =================================================================== claims
Born(w) == w <= Len(sent)
Registered(w) == Born(w) /\ ~sent[w].refused

\* the futures in the registry
Enqueued ==
  {w \in Waiters : \/ \E k \in PendingKeys : pending[k] = w
                   \/ \E x \in SPECIAL_XIDS : w \in SeqRange(pending_specials[x])}

\* no other registered request used the id of request w
DistinctXid(w) ==
  \A v \in Waiters : (Registered(v) /\ v # w) => sent[v].xid # sent[w].xid

\* a step of the read loop that finishes the frame it read with a header
\* (not a cancellation, not a failed read or decode)
HeaderFrameDone ==
  /\ rl_pc = "hdr"
  /\ ~rl_cancel
  /\ rl_pc' # "hdr"
  /\ event'.op # "read_error"

\* C1: a future sent with an ordinary id no other request uses is never
\* resolved with anything but the reply to its own request: the zxid of that
\* reply, decoded with the opcode of the request, carrying its body.
C1_OwnReply ==
  \A w \in Waiters :
    (Registered(w) /\ sent[w].xid \in OrdXids /\ DistinctXid(w)
       /\ fut[w].st = "result")
    => /\ fut[w].body = w
       /\ fut[w].zxid = ZxidBase + w
       /\ fut[w].op = sent[w].opcode

\* the reply to the second request arrived first: it is resolved with its own
\* reply while the first request, of another ordinary id, is still pending
C1_Witness ==
  /\ Len(sent) = 2
  /\ sent[1].xid \in OrdXids /\ sent[2].xid \in OrdXids
  /\ sent[1].xid # sent[2].xid
  /\ fut[2] = ResultFut(ZxidBase + 2, sent[2].opcode, 2)
  /\ fut[1].st = "pending" /\ pending[sent[1].xid] = 1

\* C2: with two or more requests of one reserved id outstanding, the reply
\* to the oldest of them resolves the future of that oldest request.
C2_ReservedFifo ==
  [][ (/\ HeaderFrameDone
       /\ rl_frame.body # 0
       /\ rl_frame.err = 0
       /\ sent[rl_frame.body].xid \in SPECIAL_XIDS
       /\ Len(pending_specials[sent[rl_frame.body].xid]) >= 2
       /\ pending_specials[sent[rl_frame.body].xid][1] = rl_frame.body
       /\ fut[rl_frame.body].st = "pending")
      => fut'[rl_frame.body] =
           ResultFut(ZxidBase + rl_frame.body, sent[rl_frame.body].opcode, rl_frame.body)
    ]_vars

\* C3: closing is never reset, and a send made while closing returns a future
\* failed with ConnectError(host, port), writes nothing and leaves the
\* pending map, the reserved lists and the opcode ledger as they were.
C3_SendWhileClosing ==
  [][ /\ closing => closing'
      /\ (closing /\ Len(sent') = Len(sent) + 1)
         => /\ fut'[Len(sent')] = ConnExc("ConnectError")
            /\ writes' = writes
            /\ srv' = srv
            /\ pending' = pending
            /\ pending_specials' = pending_specials
            /\ opcode_xref' = opcode_xref
    ]_vars

\* close() is waiting for the read loop with a future still registered, and
\* a send made meanwhile was refused
C3_Witness ==
  /\ closing
  /\ close_pc = "waiting"
  /\ Len(sent) = 2
  /\ fut[1].st = "pending" /\ 1 \in Enqueued
  /\ sent[2].refused
  /\ fut[2] = ConnExc("ConnectError")
  /\ writes = 1

\* C4: once abort has run, the connection is closing.
C4_AbortSetsClosing == event.abort # "" => closing

\* C5: a run of abort fails every future that is registered and unresolved
\* when abort is called with exception(host, port), once; it leaves every
\* other future as it was and the registry empty; no future is ever set twice.
EnqueuedAtAbort ==
  IF Len(sent') = Len(sent) + 1
  THEN \* abort called by send: the new future has been registered, in the
       \* place of the one the pending map held under its id
       LET x == sent'[Len(sent')].xid IN
       (Enqueued \ (IF x \in PendingKeys THEN {pending[x]} ELSE {}))
          \cup {Len(sent')}
  ELSE Enqueued

C6_EventuallyResolved ==
  \A w \in Waiters : (fut[w].st = "pending") ~> (fut[w].st # "pending")

\* C7: a reply with a nonzero error_code removes the ledger entry of its id
\* and fails the future registered under that id with the mapped error; no
\* other future changes and abort does not run.
C7_ErrorReplyLocal ==
  [][ (HeaderFrameDone /\ rl_frame.body # 0 /\ rl_frame.err # 0)
      => /\ event'.abort = ""
         /\ opcode_xref'[sent[rl_frame.body].xid] = NoOpcode
         /\ \A w \in Waiters :
              fut'[w] # fut[w]
              => /\ sent[w].xid = sent[rl_frame.body].xid
                 /\ w \in Enqueued
                 /\ fut'[w] = ResponseExc(get_response_error(rl_frame.err))
    ]_vars

\* C8: the step that finishes a frame of the watch id invokes the watch
\* handler and goes back to the loop condition (the next read, unless the
\* connection is closing with nothing pending); abort does not run, the task
\* does not fail, and the registry, the ledger and the futures are unchanged.
\* The handler is invoked by no other step.
C8_WatchFrame ==
  [][ /\ (HeaderFrameDone /\ rl_frame.body = 0)
         => /\ event'.op = "watch_handler"
            /\ event'.abort = ""
            /\ rl_pc' = IF ~closing \/ Enqueued # {} THEN "size" ELSE "returned"
            /\ pending' = pending
            /\ pending_specials' = pending_specials
            /\ opcode_xref' = opcode_xref
            /\ fut' = fut
            /\ nres' = nres
      /\ (event'.op = "watch_handler" /\ event' # event)
         => (rl_pc = "hdr" /\ rl_frame.body = 0)
    ]_vars

\* the handler has just been invoked while a request is outstanding, and the
\* read loop is at its next read
C8_Witness ==
  /\ event.op = "watch_handler"
  /\ rl_pc = "size"
  /\ \E w \in Waiters : fut[w].st = "pending" /\ w \in Enqueued
                         /\ opcode_xref[sent[w].xid] = sent[w].opcode

\* no future that is unresolved is registered under the id of request r
NoResolvable(r) ==
  \A w \in Enqueued : sent[w].xid = sent[r].xid => fut[w].st # "pending"

\* C9: a reply for an id that has no resolvable future is discarded: the
\* read loop task does not fail, abort does not run, no future changes and
\* no entry stays in the pending map under that id.
C9_LateReplyDiscarded ==
  [][ (HeaderFrameDone /\ rl_frame.body # 0 /\ NoResolvable(rl_frame.body))
      => /\ rl_pc' # "raised"
         /\ event'.abort = ""
         /\ fut' = fut
         /\ sent[rl_frame.body].xid \in PendingKeys
              => pending'[sent[rl_frame.body].xid] = NoWaiter
    ]_vars

\* C10: after close(timeout=0) found the read loop running, the only step
\* the read loop takes is the return on cancellation; when close goes on,
\* abort runs with TimeoutError if anything is registered, every registered
\* unresolved future ends failed with TimeoutError(host, port), and the
\* transport is closed, once.
C10_CloseZero ==
  /\ [](closes <= 1)
  /\ []((close_pc = "waiting" /\ close_timeout = 0 /\ rl_pc \in Running) => rl_cancel)
  /\ [][ /\ (close_pc = "waiting" /\ close_timeout = 0 /\ rl_pc' # rl_pc)
            => (rl_pc \in Running /\ rl_pc' = "returned" /\ fut' = fut
                /\ pending' = pending /\ pending_specials' = pending_specials)
         /\ (close_pc = "waiting" /\ close_timeout = 0 /\ close_pc' # close_pc)
            => /\ rl_pc = "returned"
               /\ close_pc' = "done"
               /\ writer = "open" /\ writer' = "closed"
               /\ closes = 0 /\ closes' = 1
               /\ Enqueued # {} => event'.abort = "TimeoutError"
               /\ \A w \in Waiters :
                    (w \in Enqueued /\ fut[w].st = "pending")
                    => fut'[w] = ConnExc("TimeoutError")
               /\ pending' = EmptyPending
               /\ pending_specials' = EmptySpecials
       ]_vars

\* close(timeout=0) cancelled the read loop and has finished: both futures
\* that were registered failed with TimeoutError, the transport is closed
C10_Witness ==
  /\ close_pc = "done"
  /\ close_timeout = 0
  /\ rl_pc = "returned"
  /\ event.abort = "TimeoutError"
  /\ Len(sent) = 2
  /\ \A w \in 1..2 : fut[w] = ConnExc("TimeoutError")
  /\ closes = 1
  /\ writer = "closed"

\* C11: when the first call of close() has ended, by returning or by
\* raising, the transport has been closed.
C11_CloseClosesTransport ==
  close_pc \in {"done", "raised"} => writer = "closed"

\* C12: the transport is closed at most once, and a call of close() made
\* when the connection is already closing (the first call finished, or still
\* waiting for the read loop) changes no future, no counter of resolutions,
\* nothing in the registry or the ledger, and neither the transport nor the
\* progress of the first call.
C12_CloseIdempotent ==
  /\ [](closes <= 1)
  /\ [][ writer = "closed" => writer' = "closed" ]_vars
  /\ [][ event'.op = "close_again"
         => /\ closing /\ closing'
            /\ UNCHANGED <<writer, closes, fut, nres, pending, pending_specials,
                           opcode_xref, close_pc, close_timeout, rl_cancel,
                           rl_pc, writes>>
       ]_vars

\* a second close() was called while the first one is still waiting for the
\* read loop, with a future unresolved in the registry
C12_Witness ==
  /\ event.op = "close_again"
  /\ close_pc = "waiting"
  /\ closes = 0
  /\ \E w \in Enqueued : fut[w].st = "pending"

\* a step of the read loop in which read_response fails: a read that is not
\* finished, a body that does not decode, or a reply whose id has no entry
\* in the ledger
ReadFailure ==
  /\ rl_pc \in Running
  /\ ~rl_cancel
  /\ \/ event'.op = "read_error"
     \/ /\ rl_pc = "hdr"
        /\ rl_pc' # "hdr"
        /\ rl_frame.body # 0
        /\ opcode_xref[FrameXid(rl_frame)] = NoOpcode

EndOfStream ==
  /\ rl_pc = "size"
  /\ ~rl_cancel
  /\ rl_pc' = "returned"
  /\ event'.op # "read_error"

\* C14: the end of the stream at the size prefix ends the read loop and
\* aborts the connection: every future registered and unresolved at that
\* step is failed with ConnectError(host, port).
C14_EofAborts ==
  [][ EndOfStream
      => /\ rl_pc' = "returned"
         /\ \A w \in Enqueued :
              fut[w].st = "pending" => fut'[w] = ConnExc("ConnectError")
    ]_vars

\* a step of send whose write to the transport failed: the request was
\* accepted (the connection was not closing) and nothing was written
WriteFailed ==
  /\ Len(sent') = Len(sent) + 1
  /\ ~sent'[Len(sent')].refused
  /\ writes' = writes

OnlySendersAndReadLoop ==
  /\ ~closing
  /\ \A w \in Waiters : fut[w].st # "cancelled" /\ fut[w].addr = <<>>

\* C16: under any interleaving of senders and the read loop, when the reply
\* to a sent request has been read, the ledger holds an opcode under its id
\* and the future send returned for it is in the registry (stated for the
\* requests whose id, if ordinary, no other request used).
C16_ReplyFindsRegistration ==
  [][ (/\ HeaderFrameDone
       /\ rl_frame.body # 0
       /\ OnlySendersAndReadLoop
       /\ sent[rl_frame.body].xid \in OrdXids => DistinctXid(rl_frame.body))
      => /\ opcode_xref[FrameXid(rl_frame)] # NoOpcode
         /\ rl_frame.body \in Enqueued
    ]_vars

\* a step of the read loop that finishes a frame it read header-less (not a
\* cancellation, not a failed read or decode)
HeaderlessFrameDone ==
  /\ rl_pc = "closebody"
  /\ ~rl_cancel
  /\ rl_pc' # "closebody"
  /\ event'.op # "read_error"

\* C17: the step that finishes a frame read header-less, while a close
\* request is outstanding, raises nothing in the read loop task, does not
\* run abort, leaves the pending map as it was, and goes back to the loop
\* condition.
C17_HeaderlessDispatch ==
  [][ HeaderlessFrameDone
      => /\ rl_pc' # "raised"
         /\ event'.abort = ""
         /\ pending' = pending
         /\ rl_pc' = IF loop_continues(closing, pending', pending_specials')
                     THEN "size" ELSE "returned"
    ]_vars

\* C19: a future that is unresolved and leaves the registry in a step is
\* resolved in that step.
C19_NoWaiterDropped ==
  [][ \A w \in Waiters :
        (w \in Enqueued /\ fut[w].st = "pending" /\ w \notin Enqueued')
        => fut'[w].st # "pending"
    ]_vars

\* C20: the ordinary ids that have an entry in the opcode ledger are the
\* ordinary ids that have a future in the pending map.
C20_LedgerMatchesPending ==
  {x \in PendingKeys : opcode_xref[x] # NoOpcode}
    = {x \in PendingKeys : pending[x] # NoWaiter}

\* C18: _read(size) returns only the first `size` bytes of the stream, the
\* chunks it received joined in order, and fails only with UnfinishedRead,
\* only with bytes missing and only at the deadline start + read_timeout;
\* it never runs past that deadline, and once the deadline is reached with
\* bytes missing its next step raises UnfinishedRead.
C18_BoundedRead ==
  /\ [](rd.pc = "returned"
          => /\ rd.size >= 0
             /\ Len(rd.result) = rd.size
             /\ rd.result = SubSeq(Stream, 1, rd.size))
  /\ [](rd.pc = "UnfinishedRead"
          => /\ rd.remaining_size # 0
             /\ Len(join(rd.payload)) # rd.size
             /\ rd.now = rd.start + rd.read_timeout)
  /\ [](rd.pc = "loop" => rd.now <= rd.start + rd.read_timeout)
  /\ [][ (rd.pc = "loop" /\ rd.remaining_size # 0
             /\ rd.now = rd.start + rd.read_timeout)
         => rd'.pc = "UnfinishedRead"
       ]_vars

\* the peer sent two of the three bytes asked for, in two chunks: _read kept
\* them until the deadline and then raised UnfinishedRead
C18_Witness ==
  /\ rd.pc = "UnfinishedRead"
  /\ rd.size = 3
  /\ rd.total = 2
  /\ join(rd.payload) = <<1, 2>>
  /\ Len(rd.payload) = 2
  /\ rd.remaining_size = 1
  /\ rd.now = rd.start + rd.read_timeout
====
